---- MODULE Spec2Model ----
(***************************************************************************)
(* A model of the expiring key-value store of redis-like-golang:           *)
(*   internal/domain/entity/item.go      Item, Item.IsExpired              *)
(*   internal/infra/storage/store.go     Store and its operations, the     *)
(*                                       sweeper goroutine                 *)
(* Two specifications share the operators that model the handlers:         *)
(*   Spec    every handler is one step (it holds s.mu for its whole body   *)
(*           and reads the clock once);                                    *)
(*   SpecMu  the handlers of two callers and the sweeper are split at the  *)
(*           acquisition and the release of s.mu.                          *)
(***************************************************************************)
EXTENDS Integers, Sequences, FiniteSets, TLC

(* ------------------------------ bounds --------------------------------- *)
\* time.Now().Unix() ranges over 0..MaxClock
MaxClock == 2
\* durationInSeconds ranges over 0..MaxDur
MaxDur == 1
\* number of StartCleanup calls (sweeper goroutines) a run may make
MaxSweepers == 2

(* ------------------------------ inputs --------------------------------- *)
\* keys are strings, written as sequences of characters
KeyA == <<"a">>
KeyAB == <<"a", "b">>
KeySet == {KeyA, KeyAB}
ValueSet == {"1", "2"}
Star == <<"*">>
PatternSet == {Star, KeyA}
\* durations are small: now + durationInSeconds stays far inside int64
DurSet == 0..MaxDur
\* a context is live, already cancelled at the call, or cancelled only after
\* the handler's entry check
CtxSet == {"live", "done", "doneLater"}
Callers == {"c1", "c2"}
SweeperIds == 1..MaxSweepers

VARIABLES
    data,         \* Store.data: a map, here a function on the present keys
    now,          \* the clock, time.Now().Unix()
    sweeper,      \* per StartCleanup call: the goroutine's position
    stopSeen,     \* per sweeper: its select has taken the stopCleanup case
    stopCleanup,  \* the channel Store.stopCleanup: "open" or "closed"
    panicked,     \* the process died of close of a closed channel
    last,         \* the call that has just completed, what it returned and
                  \* how its key stood before, until the caller takes it
    armed,        \* per key: the deadline t + d of the last successful
                  \* Expire, if its duration d was positive and no effective
                  \* Set, Del, Expire or Persist on the key followed it
    mu,           \* Store.mu: [w |-> writer holds it, r |-> number of readers]
    pc,           \* SpecMu: per caller "idle" or "cs" (inside s.mu)
    call,         \* SpecMu: per caller the call in flight
    persistence   \* what NewAOFProvider returned: nil, or the collaborator
                  \* with the records it has been handed

vars == <<data, now, sweeper, stopSeen, stopCleanup, panicked, last, armed,
          mu, pc, call, persistence>>

(* ------------------------------ Item ----------------------------------- *)
\* ExpiresAt *int64: Nil is the nil pointer, <<e>> points to e
Nil == <<>>
Ptr(e) == <<e>>
Deref(p) == p[1]

IsExpiredAtDeadline(item, t) ==
    IF item.ExpiresAt = Nil THEN FALSE ELSE t >= Deref(item.ExpiresAt)

IsExpired(item, t) ==
    IF item.ExpiresAt = Nil THEN FALSE ELSE t > Deref(item.ExpiresAt)

(* ------------------------------ Store ---------------------------------- *)
Has(d, key) == key \in DOMAIN d
Put(d, key, item) == [k \in DOMAIN d \cup {key} |-> IF k = key THEN item ELSE d[k]]
Delete(d, key) == [k \in DOMAIN d \ {key} |-> d[k]]

CtxErr(ctx) == ctx = "done"

NoRet == "none"
NotFound == [value |-> "", found |-> FALSE]

SetKeepsExpiry(d, ctx, key, value) ==
    IF CtxErr(ctx) THEN [data |-> d, ret |-> NoRet]
    ELSE [data |-> Put(d, key, [Value |-> value,
                                ExpiresAt |-> IF Has(d, key) THEN d[key].ExpiresAt
                                              ELSE Nil]),
          ret |-> NoRet]

Set(d, ctx, key, value) ==
    IF CtxErr(ctx) THEN [data |-> d, ret |-> NoRet]
    ELSE [data |-> Put(d, key, [Value |-> value, ExpiresAt |-> Nil]), ret |-> NoRet]

GetLazyDelete(d, ctx, key, t) ==
    IF CtxErr(ctx) THEN [data |-> d, ret |-> NotFound]
    ELSE IF ~Has(d, key) THEN [data |-> d, ret |-> NotFound]
    ELSE IF IsExpired(d[key], t) THEN [data |-> Delete(d, key), ret |-> NotFound]
    ELSE [data |-> d, ret |-> [value |-> d[key].Value, found |-> TRUE]]

GetAtDeadline(d, ctx, key, t) ==
    IF CtxErr(ctx) THEN [data |-> d, ret |-> NotFound]
    ELSE IF ~Has(d, key) THEN [data |-> d, ret |-> NotFound]
    ELSE IF IsExpiredAtDeadline(d[key], t) THEN [data |-> d, ret |-> NotFound]
    ELSE [data |-> d, ret |-> [value |-> d[key].Value, found |-> TRUE]]

Get(d, ctx, key, t) ==
    IF CtxErr(ctx) THEN [data |-> d, ret |-> NotFound]
    ELSE IF ~Has(d, key) THEN [data |-> d, ret |-> NotFound]
    ELSE IF IsExpired(d[key], t) THEN [data |-> d, ret |-> NotFound]
    ELSE [data |-> d, ret |-> [value |-> d[key].Value, found |-> TRUE]]

DelUnchecked(d, ctx, key) ==
    IF Has(d, key) THEN [data |-> Delete(d, key), ret |-> 1]
    ELSE [data |-> d, ret |-> 0]

DelSkipsExpired(d, ctx, key) ==
    IF CtxErr(ctx) THEN [data |-> d, ret |-> 0]
    ELSE IF Has(d, key) /\ d[key].ExpiresAt = Nil
        THEN [data |-> Delete(d, key), ret |-> 1]
    ELSE [data |-> d, ret |-> 0]

Del(d, ctx, key) ==
    IF CtxErr(ctx) THEN [data |-> d, ret |-> 0]
    ELSE IF Has(d, key) THEN [data |-> Delete(d, key), ret |-> 1]
    ELSE [data |-> d, ret |-> 0]

ExpireSkipsExpired(d, ctx, key, durationInSeconds, t) ==
    IF CtxErr(ctx) THEN [data |-> d, ret |-> FALSE]
    ELSE IF ~Has(d, key) \/ IsExpired(d[key], t) THEN [data |-> d, ret |-> FALSE]
    ELSE LET expiresAt == t + durationInSeconds
         IN  [data |-> Put(d, key, [d[key] EXCEPT !.ExpiresAt = Ptr(expiresAt)]),
              ret |-> TRUE]

Expire(d, ctx, key, durationInSeconds, t) ==
    IF CtxErr(ctx) THEN [data |-> d, ret |-> FALSE]
    ELSE IF ~Has(d, key) THEN [data |-> d, ret |-> FALSE]
    ELSE LET expiresAt == t + durationInSeconds
         IN  [data |-> Put(d, key, [d[key] EXCEPT !.ExpiresAt = Ptr(expiresAt)]),
              ret |-> TRUE]

TTLZeroAtDeadline(d, ctx, key, t) ==
    IF CtxErr(ctx) THEN [data |-> d, ret |-> -1]
    ELSE IF ~Has(d, key) THEN [data |-> d, ret |-> -1]
    ELSE IF d[key].ExpiresAt = Nil THEN [data |-> d, ret |-> -1]
    ELSE LET remaining == Deref(d[key].ExpiresAt) - t
         IN  IF remaining < 0 THEN [data |-> d, ret |-> -1]
             ELSE [data |-> d, ret |-> remaining]

TTL(d, ctx, key, t) ==
    IF CtxErr(ctx) THEN [data |-> d, ret |-> -1]
    ELSE IF ~Has(d, key) THEN [data |-> d, ret |-> -1]
    ELSE IF d[key].ExpiresAt = Nil THEN [data |-> d, ret |-> -1]
    ELSE LET remaining == Deref(d[key].ExpiresAt) - t
         IN  IF remaining <= 0 THEN [data |-> d, ret |-> -1]
             ELSE [data |-> d, ret |-> remaining]

PersistKeepsExpiry(d, ctx, key) ==
    IF CtxErr(ctx) THEN [data |-> d, ret |-> FALSE]
    ELSE IF ~Has(d, key) THEN [data |-> d, ret |-> FALSE]
    ELSE [data |-> d, ret |-> TRUE]

PersistSkipsExpired(d, ctx, key) ==
    IF CtxErr(ctx) THEN [data |-> d, ret |-> FALSE]
    ELSE IF ~Has(d, key) THEN [data |-> d, ret |-> FALSE]
    ELSE IF d[key].ExpiresAt # Nil THEN [data |-> d, ret |-> FALSE]
    ELSE [data |-> Put(d, key, [d[key] EXCEPT !.ExpiresAt = Nil]), ret |-> TRUE]

Persist(d, ctx, key) ==
    IF CtxErr(ctx) THEN [data |-> d, ret |-> FALSE]
    ELSE IF ~Has(d, key) THEN [data |-> d, ret |-> FALSE]
    ELSE [data |-> Put(d, key, [d[key] EXCEPT !.ExpiresAt = Nil]), ret |-> TRUE]


\* filepath.Match on patterns over literals, `*`, `?` and `[`: `*` matches a
\* run of non-Separator characters, `?` one non-Separator character
Separator == "/"

RECURSIVE GlobMatch(_, _)
GlobMatch(pattern, name) ==
    IF pattern = <<>> THEN name = <<>>
    ELSE IF Head(pattern) = "*"
         THEN GlobMatch(Tail(pattern), name)
              \/ (name # <<>> /\ Head(name) # Separator
                  /\ GlobMatch(pattern, Tail(name)))
    ELSE IF Head(pattern) = "?"
         THEN name # <<>> /\ Head(name) # Separator
              /\ GlobMatch(Tail(pattern), Tail(name))
    ELSE name # <<>> /\ Head(name) = Head(pattern)
         /\ GlobMatch(Tail(pattern), Tail(name))

\* ErrBadPattern: the alphabet has `[` but no `]`, so a pattern with a `[`
\* opens a character class it never closes
BadPattern(pattern) == \E i \in 1..Len(pattern) : pattern[i] = "["

\* [matched, err]
Match(pattern, name) ==
    IF BadPattern(pattern) THEN [matched |-> FALSE, err |-> TRUE]
    ELSE [matched |-> GlobMatch(pattern, name), err |-> FALSE]

matchPattern(key, pattern) ==
    IF pattern = Star THEN TRUE
    ELSE LET m == Match(pattern, key)
         IN  IF m.err THEN key = pattern ELSE m.matched

Keys(d, ctx, pattern, t) ==
    IF CtxErr(ctx) THEN [data |-> d, ret |-> {}]
    ELSE [data |-> d,
          ret |-> {key \in DOMAIN d :
                     ~IsExpired(d[key], t) /\ matchPattern(key, pattern)}]

ExistsIgnoresExpiry(d, ctx, key, t) ==
    IF CtxErr(ctx) THEN [data |-> d, ret |-> FALSE]
    ELSE [data |-> d, ret |-> Has(d, key)]

Exists(d, ctx, key, t) ==
    IF CtxErr(ctx) THEN [data |-> d, ret |-> FALSE]
    ELSE IF ~Has(d, key) THEN [data |-> d, ret |-> FALSE]
    ELSE [data |-> d, ret |-> ~IsExpired(d[key], t)]

SizeOfLive(d, ctx) ==
    IF CtxErr(ctx) THEN [data |-> d, ret |-> 0]
    ELSE [data |-> d, ret |-> Cardinality({k \in DOMAIN d : d[k].ExpiresAt = Nil})]

Size(d, ctx) ==
    IF CtxErr(ctx) THEN [data |-> d, ret |-> 0]
    ELSE [data |-> d, ret |-> Cardinality(DOMAIN d)]

cleanupExpiredKeepsAll(d, t) == d

cleanupExpiredAtDeadline(d, t) ==
    [key \in {k \in DOMAIN d : ~IsExpiredAtDeadline(d[k], t)} |-> d[key]]

cleanupExpired(d, t) ==
    [key \in {k \in DOMAIN d : ~IsExpired(d[k], t)} |-> d[key]]

(* --------------------------- persistence ------------------------------- *)
\* NewAOF: the collaborator on the file at filepath, no record received yet
NewAOF(filepath) == [filepath |-> filepath, records |-> <<>>]

NewAOFProvider(opt) ==
    IF ~opt.EnableAOF THEN Nil ELSE Ptr(NewAOF(opt.Filepath))

(* ------------------------------ calls ---------------------------------- *)
\* A call: the operation, the context and the arguments (the fields an
\* operation does not take hold a fixed filler).
NoKey == <<>>
MkCall(op, ctx, key, value, dur, pattern) ==
    [op |-> op, ctx |-> ctx, key |-> key, value |-> value, dur |-> dur,
     pattern |-> pattern]

CallSet ==
    {MkCall("Set", c, k, v, 0, NoKey) : c \in CtxSet, k \in KeySet, v \in ValueSet}
    \cup {MkCall(op, c, k, "", 0, NoKey) :
            op \in {"Get", "Del", "TTL", "Persist", "Exists"}, c \in CtxSet, k \in KeySet}
    \cup {MkCall("Expire", c, k, "", n, NoKey) : c \in CtxSet, k \in KeySet, n \in DurSet}
    \cup {MkCall("Keys", c, NoKey, "", 0, p) : c \in CtxSet, p \in PatternSet}
    \cup {MkCall("Size", c, NoKey, "", 0, NoKey) : c \in CtxSet}

ReadOps == {"Get", "TTL", "Exists", "Keys", "Size"}
WriteOps == {"Set", "Del", "Expire", "Persist"}

\* the handler of call c run on the map d at clock value t: [data, ret]
Apply(c, d, t) ==
    CASE c.op = "Set"     -> Set(d, c.ctx, c.key, c.value)
      [] c.op = "Get"     -> Get(d, c.ctx, c.key, t)
      [] c.op = "Del"     -> Del(d, c.ctx, c.key)
      [] c.op = "Expire"  -> Expire(d, c.ctx, c.key, c.dur, t)
      [] c.op = "TTL"     -> TTL(d, c.ctx, c.key, t)
      [] c.op = "Persist" -> Persist(d, c.ctx, c.key)
      [] c.op = "Keys"    -> Keys(d, c.ctx, c.pattern, t)
      [] c.op = "Exists"  -> Exists(d, c.ctx, c.key, t)
      [] c.op = "Size"    -> Size(d, c.ctx)

\* how the entry of key stands in d at clock value t
Status(d, key, t) ==
    IF ~Has(d, key) THEN "absent"
    ELSE IF d[key].ExpiresAt = Nil THEN "permanent"
    ELSE IF IsExpired(d[key], t) THEN "expired"
    ELSE "volatile"

(* ------------------------------ Spec ----------------------------------- *)
NoCall == MkCall("none", "live", NoKey, "", 0, NoKey)

NoResult == [call |-> NoCall, ret |-> NoRet, pre |-> "absent"]
\* no completed call is waiting for its caller, and the process is alive
Ready == ~panicked /\ last = NoResult

\* NewStore and the process around it before any call
Init ==
    /\ data = <<>>
    /\ now = 0
    /\ sweeper = [i \in SweeperIds |-> "none"]
    /\ stopSeen = [i \in SweeperIds |-> FALSE]
    /\ stopCleanup = "open"
    /\ panicked = FALSE
    /\ last = NoResult
    /\ armed = [k \in KeySet |-> Nil]
    /\ mu = [w |-> FALSE, r |-> 0]
    /\ pc = [p \in Callers |-> "idle"]
    /\ call = [p \in Callers |-> NoCall]
    /\ persistence = NewAOFProvider([EnableAOF |-> FALSE, Filepath |-> ""])

\* armed after call c returned r
ArmedAfter(c, r) ==
    IF c.op = "Expire" /\ r.ret = TRUE /\ c.dur > 0
        THEN [armed EXCEPT ![c.key] = Ptr(now + c.dur)]
    ELSE IF c.op \in {"Set", "Del", "Expire", "Persist"} /\ ~CtxErr(c.ctx)
        THEN [armed EXCEPT ![c.key] = Nil]
    ELSE armed

\* one whole handler on call c: entry check, s.mu held around the body
Complete(c) ==
    /\ Ready
    /\ LET r == Apply(c, data, now)
       IN  /\ data' = r.data
           /\ last' = [call |-> c, ret |-> r.ret, pre |-> Status(data, c.key, now)]
           /\ armed' = ArmedAfter(c, r)
    /\ UNCHANGED <<now, sweeper, stopSeen, stopCleanup, panicked, mu, pc, call,
                   persistence>>

DoSet     == \E c \in CallSet : c.op = "Set" /\ Complete(c)
DoGet     == \E c \in CallSet : c.op = "Get" /\ Complete(c)
DoDel     == \E c \in CallSet : c.op = "Del" /\ Complete(c)
DoExpire  == \E c \in CallSet : c.op = "Expire" /\ Complete(c)
DoTTL     == \E c \in CallSet : c.op = "TTL" /\ Complete(c)
DoPersist == \E c \in CallSet : c.op = "Persist" /\ Complete(c)
DoKeys    == \E c \in CallSet : c.op = "Keys" /\ Complete(c)
DoExists  == \E c \in CallSet : c.op = "Exists" /\ Complete(c)
DoSize    == \E c \in CallSet : c.op = "Size" /\ Complete(c)

\* the caller takes the result of its call
Return ==
    /\ last # NoResult
    /\ last' = NoResult
    /\ UNCHANGED <<data, now, sweeper, stopSeen, stopCleanup, panicked, armed,
                   mu, pc, call,
                   persistence>>

\* the clock advances by a second
Tick ==
    /\ Ready
    /\ now < MaxClock
    /\ now' = now + 1
    /\ UNCHANGED <<data, sweeper, stopSeen, stopCleanup, panicked, last, armed,
                   mu, pc, call,
                   persistence>>

\* StartCleanup (with a positive interval): a new goroutine enters its loop
StartCleanup ==
    /\ Ready
    /\ \E i \in SweeperIds :
          /\ sweeper[i] = "none"
          /\ \A j \in SweeperIds : j < i => sweeper[j] # "none"
          /\ sweeper' = [sweeper EXCEPT ![i] = "select"]
    /\ UNCHANGED <<data, now, stopSeen, stopCleanup, panicked, last, armed,
                   mu, pc, call,
                   persistence>>

\* StopCleanup: close(s.stopCleanup); closing a closed channel panics
StopCleanup ==
    /\ Ready
    /\ IF stopCleanup = "closed"
          THEN panicked' = TRUE /\ UNCHANGED stopCleanup
          ELSE stopCleanup' = "closed" /\ UNCHANGED panicked
    /\ UNCHANGED <<data, now, sweeper, stopSeen, last, armed, mu, pc, call, persistence>>

\* the select of sweeper i receives from ticker.C and runs cleanupExpired
SweeperTick(i) ==
    /\ Ready
    /\ sweeper[i] = "select"
    /\ data' = cleanupExpired(data, now)
    /\ UNCHANGED <<now, sweeper, stopSeen, stopCleanup, panicked, last, armed,
                   mu, pc, call,
                   persistence>>

\* where the loop of a sweeper is after the stopCleanup case of its select:
\* the case has an empty body, the for loop goes round
AfterStopCase == "select"

\* the select of sweeper i receives from the closed s.stopCleanup
SweeperStop(i) ==
    /\ Ready
    /\ sweeper[i] = "select"
    /\ stopCleanup = "closed"
    /\ sweeper' = [sweeper EXCEPT ![i] = AfterStopCase]
    /\ stopSeen' = [stopSeen EXCEPT ![i] = TRUE]
    /\ UNCHANGED <<data, now, stopCleanup, panicked, last, armed, mu, pc, call,
                   persistence>>

Next ==
    \/ DoSet \/ DoGet \/ DoDel \/ DoExpire \/ DoTTL \/ DoPersist
    \/ DoKeys \/ DoExists \/ DoSize
    \/ Return
    \/ Tick
    \/ StartCleanup
    \/ StopCleanup
    \/ \E i \in SweeperIds : SweeperTick(i)
    \/ \E i \in SweeperIds : SweeperStop(i)

Spec == Init /\ [][Next]_vars

\* some running sweeper scans
SomeSweeperTick == \E i \in SweeperIds : SweeperTick(i)

\* The caller takes its result; a sweeper whose ticker keeps firing gets s.mu
\* again and again (sync.RWMutex does not starve a writer), and its select,
\* which picks at random among the ready cases, takes the tick in the end.
\* The fairness asked is the least that follows: scans keep happening while a
\* sweeper runs.
FairSpec ==
    /\ Spec
    /\ WF_vars(Return)
    /\ SF_vars(SomeSweeperTick)

(* ------------------------------ SpecAOF --------------------------------- *)
\* the store of a process started with durability enabled
InitAOF ==
    /\ data = <<>>
    /\ now = 0
    /\ sweeper = [i \in SweeperIds |-> "none"]
    /\ stopSeen = [i \in SweeperIds |-> FALSE]
    /\ stopCleanup = "open"
    /\ panicked = FALSE
    /\ last = NoResult
    /\ armed = [k \in KeySet |-> Nil]
    /\ mu = [w |-> FALSE, r |-> 0]
    /\ pc = [p \in Callers |-> "idle"]
    /\ call = [p \in Callers |-> NoCall]
    /\ persistence = NewAOFProvider([EnableAOF |-> TRUE, Filepath |-> "appendonly.aof"])

SpecAOF == InitAOF /\ [][Next]_vars

(* ------------------------------ SpecKeys -------------------------------- *)
\* Keys over a wider range of keys and patterns: the store starts from any
\* map a sequence of Set and Expire calls can have left behind.
KeySlash == <<"a", "/", "b">>
KeyBracket == <<"[">>
WideKeySet == KeySet \cup {KeySlash, KeyBracket}
WidePatternSet ==
    PatternSet \cup
    {<<"a", "*">>, <<"a", "?">>, <<"?">>, <<"*", "b">>, <<"*", "*">>,
     <<"a", "?", "b">>, <<"a", "/", "*">>, KeySlash, KeyBracket, <<"a", "[">>}

\* the maps over WideKeySet: each key absent, without expiration, or with one
StoreSet ==
    UNION {[K -> {[Value |-> "1", ExpiresAt |-> e] :
                    e \in {Nil} \cup {Ptr(t) : t \in 0..MaxClock}}] :
           K \in SUBSET WideKeySet}

InitKeys ==
    /\ data \in StoreSet
    /\ now \in 0..MaxClock
    /\ sweeper = [i \in SweeperIds |-> "none"]
    /\ stopSeen = [i \in SweeperIds |-> FALSE]
    /\ stopCleanup = "open"
    /\ panicked = FALSE
    /\ last = NoResult
    /\ armed = [k \in KeySet |-> Nil]
    /\ mu = [w |-> FALSE, r |-> 0]
    /\ pc = [p \in Callers |-> "idle"]
    /\ call = [p \in Callers |-> NoCall]
    /\ persistence = NewAOFProvider([EnableAOF |-> FALSE, Filepath |-> ""])

WideCallSet ==
    {MkCall("Keys", c, NoKey, "", 0, p) : c \in {"live", "done"}, p \in WidePatternSet}

DoKeysWide == \E c \in WideCallSet : c.op = "Keys" /\ Complete(c)

NextKeys ==
    \/ DoKeysWide
    \/ Return
    \/ Tick

SpecKeys == InitKeys /\ [][NextKeys]_vars

(* ------------------------------ SpecMu --------------------------------- *)
\* which side of s.mu each handler takes: Lock ("W") or RLock ("R")
LockModeExpireShared(op) ==
    CASE op = "Set" -> "W" [] op = "Get" -> "R" [] op = "Del" -> "W"
      [] op = "Expire" -> "R" [] op = "TTL" -> "R" [] op = "Persist" -> "W"
      [] op = "Keys" -> "R" [] op = "Exists" -> "R" [] op = "Size" -> "R"

LockMode(op) ==
    CASE op = "Set" -> "W" [] op = "Get" -> "R" [] op = "Del" -> "W"
      [] op = "Expire" -> "W" [] op = "TTL" -> "R" [] op = "Persist" -> "W"
      [] op = "Keys" -> "R" [] op = "Exists" -> "R" [] op = "Size" -> "R"

\* sync.RWMutex: Lock waits for no writer and no reader, RLock for no writer
CanLock(m) == ~m.w /\ m.r = 0
CanRLock(m) == ~m.w
Lock(m) == [m EXCEPT !.w = TRUE]
Unlock(m) == [m EXCEPT !.w = FALSE]
RLock(m) == [m EXCEPT !.r = m.r + 1]
RUnlock(m) == [m EXCEPT !.r = m.r - 1]

\* caller p enters the handler of call c with a context that passes the
\* entry check, and acquires s.mu on the handler's side
Acquire(p, c) ==
    /\ Ready
    /\ pc[p] = "idle"
    /\ c.ctx = "live"
    /\ IF LockMode(c.op) = "W"
          THEN CanLock(mu) /\ mu' = Lock(mu)
          ELSE CanRLock(mu) /\ mu' = RLock(mu)
    /\ pc' = [pc EXCEPT ![p] = "cs"]
    /\ call' = [call EXCEPT ![p] = c]
    /\ UNCHANGED <<data, now, sweeper, stopSeen, stopCleanup, panicked, last, armed,
                   persistence>>

\* caller p runs the body of its handler and the deferred release of s.mu
Body(p) ==
    /\ pc[p] = "cs"
    /\ data' = Apply(call[p], data, now).data
    /\ mu' = IF LockMode(call[p].op) = "W" THEN Unlock(mu) ELSE RUnlock(mu)
    /\ pc' = [pc EXCEPT ![p] = "idle"]
    /\ call' = [call EXCEPT ![p] = NoCall]
    /\ UNCHANGED <<now, sweeper, stopSeen, stopCleanup, panicked, last, armed,
                   persistence>>

\* sweeper i receives a tick and cleanupExpired acquires s.mu
SweeperLock(i) ==
    /\ Ready
    /\ sweeper[i] = "select"
    /\ CanLock(mu)
    /\ mu' = Lock(mu)
    /\ sweeper' = [sweeper EXCEPT ![i] = "cs"]
    /\ UNCHANGED <<data, now, stopSeen, stopCleanup, panicked, last, armed, pc, call,
                   persistence>>

\* cleanupExpired of sweeper i scans, releases s.mu and returns to the select
SweeperScan(i) ==
    /\ sweeper[i] = "cs"
    /\ data' = cleanupExpired(data, now)
    /\ mu' = Unlock(mu)
    /\ sweeper' = [sweeper EXCEPT ![i] = "select"]
    /\ UNCHANGED <<now, stopSeen, stopCleanup, panicked, last, armed, pc, call,
                   persistence>>

NextMu ==
    \/ \E p \in Callers, c \in CallSet : Acquire(p, c)
    \/ \E p \in Callers : Body(p)
    \/ Tick
    \/ StartCleanup
    \/ \E i \in SweeperIds : SweeperLock(i)
    \/ \E i \in SweeperIds : SweeperScan(i)

SpecMu == Init /\ [][NextMu]_vars

\* the callers and sweepers inside a critical section on s.data
ReadersIn == {p \in Callers : pc[p] = "cs" /\ call[p].op \in ReadOps}
WritersIn ==
    {p \in Callers : pc[p] = "cs" /\ call[p].op \in WriteOps}
    \cup {i \in SweeperIds : sweeper[i] = "cs"}

\* C1: a writer (Set, Del, Expire, Persist, a sweeper scan) is never inside
\* its critical section together with another writer or with a reader (Get,
\* TTL, Exists, Keys, Size), and s.mu records exactly who is inside.
C1_WriterExcludesAll ==
    /\ Cardinality(WritersIn) <= 1
    /\ WritersIn # {} => ReadersIn = {}
    /\ mu.w = (WritersIn # {})
    /\ mu.r = Cardinality(ReadersIn)

\* two readers inside at once, over a map that holds an entry
C1_TwoReadersInside == Cardinality(ReadersIn) = 2 /\ DOMAIN data # {}

(* ------------------------------ claims --------------------------------- *)
Live(c) == c.ctx # "done"

\* C2: after Expire(k, d) with d > 0 returned true at clock value t, TTL(k) at
\* that instant is in (0, d]; as long as no Set, Del, Expire or Persist on k
\* took effect since, Get(k) finds the key at every clock value <= t + d, and
\* at every clock value > t + d Get(k) finds nothing and Exists(k) is false,
\* swept or not.
C2_ExpiryCorrectness ==
    /\ (last.call.op = "Expire" /\ last.call.dur > 0 /\ last.ret = TRUE)
          => TTL(data, "live", last.call.key, now).ret \in 1..last.call.dur
    /\ \A k \in KeySet :
          armed[k] # Nil =>
             IF now <= Deref(armed[k])
                THEN Get(data, "live", k, now).ret.found
                ELSE /\ ~Get(data, "live", k, now).ret.found
                     /\ ~Exists(data, "live", k, now).ret

\* a Get that ran after the deadline, before any sweep, and found nothing
C2_GetAfterDeadlineUnswept ==
    /\ last.call.op = "Get" /\ last.call.ctx = "live"
    /\ armed[last.call.key] # Nil
    /\ now > Deref(armed[last.call.key])
    /\ Has(data, last.call.key)
    /\ ~last.ret.found

\* the step completes a call (Complete is the only action that sets last)
Completes(c) == last' # NoResult /\ last'.call = c
\* the step is a Set, Del, Expire or Persist on k that passed its entry check
WritesKey(k) ==
    /\ last' # NoResult
    /\ last'.call.op \in WriteOps /\ last'.call.key = k /\ Live(last'.call)

\* C3: a step that completes a Get, TTL, Exists, Keys or Size leaves the map
\* as it was: the same keys, values and expiration instants, also when the
\* read meets an entry that is expired and not yet swept.
C3_ReadsLeaveMap ==
    [][(last' # NoResult /\ last'.call.op \in ReadOps) => data' = data]_vars

\* a Get met an expired entry, reported it absent, and the entry is still there
C3_ExpiredReadKept ==
    /\ last.call.op = "Get" /\ last.call.ctx = "live"
    /\ last.pre = "expired"
    /\ ~last.ret.found
    /\ Has(data, last.call.key)

\* the entries that are expired and not yet swept
ExpiredUnswept ==
    {k \in DOMAIN data : data[k].ExpiresAt # Nil /\ now > Deref(data[k].ExpiresAt)}

\* C4: once a sweeper is started, an entry whose expiration instant has
\* passed is eventually out of the map, so that Size no longer counts it,
\* unless a Set, Expire or Persist revives it (or the process has died).
C4_SweeperConvergence ==
    \A k \in KeySet :
       (sweeper[1] # "none" /\ k \in ExpiredUnswept)
          ~> (~Has(data, k) \/ k \notin ExpiredUnswept \/ panicked)

\* a sweeper scan has removed an entry whose deadline passed: no Del, Set or
\* Persist took effect on the key since the Expire that set the deadline
C4_SweptAfterDeadline ==
    \E k \in KeySet :
       /\ sweeper[1] # "none"
       /\ armed[k] # Nil
       /\ now > Deref(armed[k])
       /\ ~Has(data, k)
       /\ Size(data, "live").ret = Cardinality(DOMAIN data \ {k})

\* C5: a sweeper whose select has received the stop signal has left its loop.
C5_SweeperTerminates ==
    \A i \in SweeperIds : stopSeen[i] => sweeper[i] = "exited"

\* C6: right after a Set(k, v) that passed its entry check, whatever the entry
\* of k was before, the entry is v without expiration: TTL(k) = -1, Exists(k)
\* is true and Get(k) returns v.
C6_SetResetsTTL ==
    (last.call.op = "Set" /\ Live(last.call)) =>
       LET k == last.call.key
           v == last.call.value
       IN  /\ Has(data, k)
           /\ data[k] = [Value |-> v, ExpiresAt |-> Nil]
           /\ TTL(data, "live", k, now).ret = -1
           /\ Exists(data, "live", k, now).ret = TRUE
           /\ Get(data, "live", k, now).ret = [value |-> v, found |-> TRUE]

\* a Set over an entry that was expired and not yet swept
C6_SetOverExpired ==
    last.call.op = "Set" /\ Live(last.call) /\ last.pre = "expired"

\* C7: Persist(k) on an entry with an expiration that has not passed returns
\* true, leaves the value and makes TTL(k) = -1; and an entry without
\* expiration stays as it is, with TTL(k) = -1, through every step (ticks and
\* sweeper scans included) that is not a Set, Del or Expire on k.
C7_PersistClearsTTL ==
    [][\A k \in KeySet :
         /\ (Completes(MkCall("Persist", "live", k, "", 0, NoKey))
             /\ Status(data, k, now) = "volatile")
               => /\ last'.ret = TRUE
                  /\ TTL(data', "live", k, now').ret = -1
                  /\ Get(data', "live", k, now').ret
                       = [value |-> data[k].Value, found |-> TRUE]
         /\ (Has(data, k) /\ data[k].ExpiresAt = Nil /\ ~WritesKey(k))
               => /\ Has(data', k)
                  /\ data'[k] = data[k]
                  /\ TTL(data', "live", k, now').ret = -1
                  /\ Get(data', "live", k, now').ret.found
      ]_vars

\* a Persist on an entry whose expiration had not passed
C7_PersistOnVolatile ==
    last.call.op = "Persist" /\ last.call.ctx = "live" /\ last.pre = "volatile"
    /\ last.ret = TRUE

\* the result of each operation called with a cancelled context
Sentinel(op) ==
    CASE op = "Set" -> NoRet
      [] op = "Get" -> NotFound
      [] op = "Del" -> 0
      [] op \in {"Expire", "Persist", "Exists"} -> FALSE
      [] op = "TTL" -> -1
      [] op = "Size" -> 0
      [] op = "Keys" -> {}

\* C8: a call whose context is cancelled at entry leaves the map as it was and
\* returns the sentinel of its operation; a call whose context is cancelled
\* only after the entry check does what the same call does with a live context.
C8_CancelAtEntry ==
    [][\A c \in CallSet :
         Completes(c) =>
            /\ c.ctx = "done" => (data' = data /\ last'.ret = Sentinel(c.op))
            /\ c.ctx = "doneLater" =>
                  LET r == Apply([c EXCEPT !.ctx = "live"], data, now)
                  IN  data' = r.data /\ last'.ret = r.ret
      ]_vars

\* a Del with a cancelled context on a key that is present
C8_CancelledDelOnPresent ==
    /\ last.call.op = "Del" /\ last.call.ctx = "done"
    /\ last.pre # "absent"
    /\ last.ret = 0
    /\ Has(data, last.call.key)

\* C9: Del(k) returns 1 and removes the entry exactly when k is present,
\* expired or not, and Size drops by 1; on an absent key it returns 0 and
\* leaves the map; no other entry changes; a second Del(k) right after returns
\* 0, and an absent key stays absent through every step that is not a Set on
\* it.
C9_Delete ==
    [][\A k \in KeySet :
         /\ (last' # NoResult /\ last'.call.op = "Del" /\ last'.call.key = k
             /\ Live(last'.call))
               => /\ IF Has(data, k)
                        THEN /\ last'.ret = 1
                             /\ Size(data', "live").ret = Size(data, "live").ret - 1
                        ELSE /\ last'.ret = 0
                             /\ Size(data', "live").ret = Size(data, "live").ret
                  /\ ~Has(data', k)
                  /\ \A j \in KeySet \ {k} :
                        /\ Has(data', j) = Has(data, j)
                        /\ Has(data, j) => data'[j] = data[j]
                  /\ Del(data', "live", k).ret = 0
         /\ (~Has(data, k)
             /\ ~(last' # NoResult /\ last'.call.op = "Set" /\ last'.call.key = k))
               => ~Has(data', k)
      ]_vars

\* a Del removed an entry that was expired and not yet swept
C9_DelOfExpired ==
    /\ last.call.op = "Del" /\ last.call.ctx = "live"
    /\ last.pre = "expired"
    /\ last.ret = 1

\* C10: Size with a live context is the number of entries in the map, expired
\* ones included; it is at least the number of keys Keys("*") returns, and the
\* difference is the number of expired, unswept entries.
C10_SizeCountsPhysical ==
    LET size == Size(data, "live").ret
        keys == Keys(data, "live", Star, now).ret
    IN  /\ size = Cardinality(DOMAIN data)
        /\ size >= Cardinality(keys)
        /\ size - Cardinality(keys) = Cardinality(ExpiredUnswept)
        /\ (last.call.op = "Size" /\ Live(last.call)) => last.ret = size

\* a Size call counted an entry that Keys("*") leaves out
C10_SizeCountsExpired ==
    /\ last.call.op = "Size" /\ last.call.ctx = "live"
    /\ last.ret = 2
    /\ Cardinality(Keys(data, "live", Star, now).ret) = 1

\* C12: TTL(k) is -1 when k is absent, has no expiration, or expiresAt - now
\* is <= 0; otherwise it is expiresAt - now, a positive number; it is never 0
\* and never below -1. A completed TTL call returned just that.
C12_TTLValue ==
    /\ \A k \in KeySet :
          LET r == TTL(data, "live", k, now).ret
          IN  /\ IF ~Has(data, k) THEN r = -1
                 ELSE IF data[k].ExpiresAt = Nil THEN r = -1
                 ELSE IF Deref(data[k].ExpiresAt) - now <= 0 THEN r = -1
                 ELSE r = Deref(data[k].ExpiresAt) - now /\ r > 0
              /\ r # 0
              /\ r >= -1
    /\ (last.call.op = "TTL" /\ Live(last.call))
          => last.ret = TTL(data, "live", last.call.key, now).ret

\* a TTL call at the very second of the deadline returned -1
C12_TTLAtDeadline ==
    /\ last.call.op = "TTL" /\ last.call.ctx = "live"
    /\ Has(data, last.call.key)
    /\ data[last.call.key].ExpiresAt = Ptr(now)
    /\ last.ret = -1

\* C13: Expire(k, d) on an absent key returns false and leaves the map; on a
\* present key, expired or not, it returns true, sets expiresAt = now + d,
\* keeps the value and every other entry, and Get, Exists and Keys see the key
\* exactly while the clock is <= now + d.
C13_Expire ==
    [][\A c \in CallSet :
         (Completes(c) /\ c.op = "Expire" /\ Live(c)) =>
            IF ~Has(data, c.key)
               THEN last'.ret = FALSE /\ data' = data
               ELSE /\ last'.ret = TRUE
                    /\ DOMAIN data' = DOMAIN data
                    /\ data'[c.key] = [Value |-> data[c.key].Value,
                                       ExpiresAt |-> Ptr(now + c.dur)]
                    /\ \A j \in DOMAIN data \ {c.key} : data'[j] = data[j]
                    /\ \A t \in now..MaxClock :
                          LET seen == t <= now + c.dur
                          IN  /\ Get(data', "live", c.key, t).ret.found = seen
                              /\ Exists(data', "live", c.key, t).ret = seen
                              /\ (c.key \in Keys(data', "live", Star, t).ret) = seen
      ]_vars

\* an Expire with a positive duration on an entry that was expired, unswept
C13_ExpireRevives ==
    /\ last.call.op = "Expire" /\ last.call.ctx = "live"
    /\ last.call.dur > 0
    /\ last.pre = "expired"
    /\ last.ret = TRUE
    /\ Get(data, "live", last.call.key, now).ret.found

\* the entry of k is past its expiration at clock value t
PastDeadline(d, k, t) == d[k].ExpiresAt # Nil /\ t > Deref(d[k].ExpiresAt)

\* C16: a sweeper scan leaves in the map exactly the entries that are not
\* expired at the scan's clock value, each as it was; and an entry that leaves
\* the map in a step that is not a Del on it had an expiration and the clock
\* was past it: no entry without expiration, and none at a clock value <= its
\* expiresAt, is ever removed by the sweeper.
C16_ScanRemovesExpiredOnly ==
    [][/\ SomeSweeperTick
            => data' = [k \in {j \in DOMAIN data : ~PastDeadline(data, j, now)}
                          |-> data[k]]
       /\ \A k \in KeySet :
             (Has(data, k) /\ ~Has(data', k)
              /\ ~(last' # NoResult /\ last'.call.op = "Del" /\ last'.call.key = k))
                => PastDeadline(data, k, now)
      ]_vars

\* a scan has removed an expired entry and left one whose deadline is ahead
C16_ScanKeptVolatile ==
    \E k, j \in KeySet :
       /\ sweeper[1] # "none"
       /\ armed[k] # Nil /\ now > Deref(armed[k]) /\ ~Has(data, k)
       /\ Has(data, j) /\ data[j].ExpiresAt # Nil /\ ~PastDeadline(data, j, now)

\* C18: for every key, Get finds it iff Exists is true iff Keys("*") lists it
\* iff it is in the map and not past its expiration; completed Get and
\* Exists calls returned just that.
C18_ReadViewsAgree ==
    /\ \A k \in KeySet :
          LET visible == Has(data, k) /\ ~PastDeadline(data, k, now)
          IN  /\ Get(data, "live", k, now).ret.found = visible
              /\ Exists(data, "live", k, now).ret = visible
              /\ (k \in Keys(data, "live", Star, now).ret) = visible
    /\ (last.call.op = "Exists" /\ Live(last.call))
          => last.ret = Get(data, "live", last.call.key, now).ret.found
    /\ (last.call.op = "Get" /\ Live(last.call))
          => last.ret.found = (last.call.key \in Keys(data, "live", Star, now).ret)

\* an Exists call on an expired, unswept entry returned false
C18_ExistsOnExpired ==
    /\ last.call.op = "Exists" /\ last.call.ctx = "live"
    /\ last.pre = "expired"
    /\ last.ret = FALSE

\* C19: TTL(k) > 0 implies Get(k) finds the key, and Get(k) finding nothing
\* implies TTL(k) = -1; Get(k) finds the key while TTL(k) = -1 exactly for an
\* entry without expiration and for an entry at the second now = expiresAt.
C19_TTLAndVisibility ==
    \A k \in KeySet :
       LET ttl == TTL(data, "live", k, now).ret
           found == Get(data, "live", k, now).ret.found
       IN  /\ ttl > 0 => found
           /\ ~found => ttl = -1
           /\ (found /\ ttl = -1)
                 <=> (Has(data, k) /\ (data[k].ExpiresAt = Nil
                                       \/ data[k].ExpiresAt = Ptr(now)))

\* right after Expire(k, 0): Get finds the key and TTL is -1
C19_AfterExpireZero ==
    /\ last.call.op = "Expire" /\ last.call.ctx = "live" /\ last.call.dur = 0
    /\ last.ret = TRUE
    /\ Get(data, "live", last.call.key, now).ret.found
    /\ TTL(data, "live", last.call.key, now).ret = -1

\* C20: Persist(k) returns true iff k was in the map, iff k is in the map
\* afterwards; on an expired, unswept entry it returns true and the old value
\* is from then on visible to Get, Exists and Keys at every clock value; on a
\* key the sweeper has removed it returns false and changes nothing.
C20_PersistIgnoresExpiry ==
    [][\A c \in CallSet :
         (Completes(c) /\ c.op = "Persist" /\ Live(c)) =>
            /\ last'.ret = Has(data, c.key)
            /\ last'.ret = Has(data', c.key)
            /\ Status(data, c.key, now) = "expired" =>
                  /\ last'.ret = TRUE
                  /\ data'[c.key] = [Value |-> data[c.key].Value, ExpiresAt |-> Nil]
                  /\ \A t \in now..MaxClock :
                        /\ Get(data', "live", c.key, t).ret
                              = [value |-> data[c.key].Value, found |-> TRUE]
                        /\ Exists(data', "live", c.key, t).ret
                        /\ c.key \in Keys(data', "live", Star, t).ret
            /\ ~Has(data, c.key) => (last'.ret = FALSE /\ data' = data)
      ]_vars

\* a Persist won the race with a running sweeper for an expired entry
C20_PersistBeforeSweep ==
    /\ last.call.op = "Persist" /\ last.call.ctx = "live"
    /\ last.pre = "expired"
    /\ last.ret = TRUE
    /\ sweeper[1] = "select"

\* StartCleanup calls so far, and StopCleanup calls that have returned so far
\* (a second close does not return)
Started == Cardinality({i \in SweeperIds : sweeper[i] # "none"})
Stopped == IF stopCleanup = "closed" THEN 1 ELSE 0

\* C15: a StopCleanup call made when fewer stops than starts have happened on
\* the store completes without a fault (so StartCleanup, StopCleanup,
\* StartCleanup, StopCleanup runs through).
C15_StopOncePerStart ==
    [][(StopCleanup /\ Stopped < Started) => ~panicked']_vars

\* C17: a sweeper that has received the stop signal runs no further scan
\* that removes an entry, so entries expiring after the stop stay in the map.
C17_NoScanAfterStop ==
    [][\A i \in SweeperIds : stopSeen[i] => ~SweeperTick(i)]_vars

\* the matching the contract describes: `*` any run of characters, `?` any
\* one character
RECURSIVE RunMatch(_, _)
RunMatch(pattern, name) ==
    IF pattern = <<>> THEN name = <<>>
    ELSE IF Head(pattern) = "*"
         THEN RunMatch(Tail(pattern), name)
              \/ (name # <<>> /\ RunMatch(pattern, Tail(name)))
    ELSE IF Head(pattern) = "?"
         THEN name # <<>> /\ RunMatch(Tail(pattern), Tail(name))
    ELSE name # <<>> /\ Head(name) = Head(pattern)
         /\ RunMatch(Tail(pattern), Tail(name))

Selects(pattern, key) ==
    IF pattern = Star THEN TRUE
    ELSE IF BadPattern(pattern) THEN key = pattern
    ELSE IF \A i \in 1..Len(pattern) : pattern[i] \notin {"*", "?"}
         THEN key = pattern
    ELSE RunMatch(pattern, key)

\* C11: a completed Keys(p) call returned exactly the keys in the map that are
\* not past their expiration and that p selects: "*" selects every key, a
\* pattern without metacharacters the equal key, `*` in a pattern stands for
\* any run of characters and `?` for one, a malformed pattern selects the key
\* equal to it.
C11_KeysPattern ==
    (last.call.op = "Keys" /\ Live(last.call))
       => last.ret = {k \in DOMAIN data :
                        ~PastDeadline(data, k, now) /\ Selects(last.call.pattern, k)}

\* call c, which returned r, took effect on the store
TookEffect(c, r) ==
    /\ Live(c)
    /\ \/ c.op = "Set"
       \/ c.op = "Del" /\ r = 1
       \/ c.op \in {"Expire", "Persist"} /\ r = TRUE

\* what a replay needs of call c
Notification(c) == [op |-> c.op, key |-> c.key, value |-> c.value, ttl |-> c.dur]

\* C14: with durability enabled, each Set, Del, Expire or Persist that takes
\* effect hands the collaborator one record with the operation, the key and
\* the value or TTL, in the order of the calls; every other call leaves the
\* collaborator as it was.
C14_MutationsNotified ==
    [][persistence # Nil =>
         \A c \in CallSet :
            Completes(c) =>
               IF TookEffect(c, last'.ret)
                  THEN persistence' =
                          Ptr([Deref(persistence) EXCEPT
                                 !.records = Append(@, Notification(c))])
                  ELSE persistence' = persistence
      ]_vars

====
